---- MODULE Spec2Model ----
(***************************************************************************)
(* A model of src/project/stylegan2_network.py: the conditional mapping    *)
(* network, the per-pixel noise injection and the style-modulated          *)
(* convolution of a StyleGAN2 generator.                                   *)
(*                                                                         *)
(* Tensors are modelled by their shape (a sequence of naturals) and, where *)
(* values matter, by their row-major data.  A failed torch call (a view    *)
(* whose element count differs, operands that do not broadcast, a          *)
(* convolution whose channels do not match) is the shape ShapeError.       *)
(***************************************************************************)
EXTENDS Integers, Sequences, FiniteSets, TLC

(***************************************************************************)
(* Python floats: IEEE-754 binary64, round to nearest even.  A positive    *)
(* float is [m |-> <<hi, lo>>, e |-> e], the value (hi * Limb + lo) * 2^e   *)
(* with 2^52 <= hi * Limb + lo < 2^53.  Two limbs keep every intermediate  *)
(* below 2^31.                                                             *)
(***************************************************************************)
MantBits == 53

Limb == 2 ^ 27

TopLimb == 2 ^ (MantBits - 28)

Dbl(p) == <<2 * p[1] + ((2 * p[2]) \div Limb), (2 * p[2]) % Limb>>

Geq(p, q) == p[1] > q[1] \/ (p[1] = q[1] /\ p[2] >= q[2])

Sub(p, q) ==
    IF p[2] >= q[2] THEN <<p[1] - q[1], p[2] - q[2]>>
                    ELSE <<p[1] - q[1] - 1, p[2] + Limb - q[2]>>

Inc(p) == IF p[2] + 1 = Limb THEN <<p[1] + 1, 0>> ELSE <<p[1], p[2] + 1>>

Add(p, q) == <<p[1] + q[1] + ((p[2] + q[2]) \div Limb), (p[2] + q[2]) % Limb>>

\* a * b as a two-limb number, for naturals a, b < Limb.
RECURSIVE Mul(_, _)
Mul(a, b) ==
    IF a = 0 THEN <<0, 0>>
    ELSE IF a % 2 = 1 THEN Add(Dbl(Mul(a \div 2, b)), <<0, b>>)
                      ELSE Dbl(Mul(a \div 2, b))

RECURSIVE Normalise(_, _)
Normalise(p, e) ==
    IF p[1] >= TopLimb THEN [m |-> p, e |-> e] ELSE Normalise(Dbl(p), e - 1)

\* float(n) for a positive int n < 2^27: exact.
IntToFloat(n) == Normalise(<<0, n>>, 0)

\* n steps of the binary long division of r * 2^n by d: <<quotient, remainder>>.
\* (The quotient is never negative; testing it keeps each step evaluated.)
RECURSIVE LongDiv(_, _, _, _)
LongDiv(r, q, d, n) ==
    IF n = 0 \/ q[1] < 0 THEN <<q, r>>
    ELSE LET r2 == Dbl(r)
             bit == Geq(r2, d)
         IN  LongDiv(IF bit THEN Sub(r2, d) ELSE r2,
                     IF bit THEN Inc(Dbl(q)) ELSE Dbl(q), d, n - 1)

\* 1.0 / f, correctly rounded: 2^(2*MantBits-1) / m lies in (2^52, 2^53].
FloatRecip(f) ==
    LET qr    == LongDiv(<<0, 1>>, <<0, 0>>, f.m, 2 * MantBits - 1)
        q     == qr[1]
        twice == Dbl(qr[2])
        up    == (twice # f.m /\ Geq(twice, f.m)) \/ (twice = f.m /\ q[2] % 2 = 1)
        qq    == IF up THEN Inc(q) ELSE q
        e     == 0 - f.e - (2 * MantBits - 1)
    IN  IF qq[1] >= 2 * TopLimb
        THEN [m |-> <<qq[1] \div 2, 0>>, e |-> e + 1]
        ELSE [m |-> qq, e |-> e]

\* int(f): truncation towards zero of a positive float.
FloatToInt(f) ==
    IF f.e >= 0 THEN (f.m[1] * Limb + f.m[2]) * 2 ^ f.e
    ELSE IF 0 - f.e >= 27
         THEN (IF 0 - f.e - 27 >= 27 THEN 0 ELSE f.m[1] \div 2 ^ (0 - f.e - 27))
         ELSE f.m[1] * 2 ^ (27 + f.e) + (f.m[2] \div 2 ^ (0 - f.e))

Max(a, b) == IF a >= b THEN a ELSE b

(***************************************************************************)
(* Bounds of the model.                                                    *)
(***************************************************************************)
MaxBatch == 2

MaxChannels == 2

MaxKernel == 3

MaxStyleDim == 2

MaxSize == 2

MaxPad == 1

MaxUp == 2

MaxDown == 2

MaxStrideUp == 96

MaxLayers == 2

MaxLabels == 2

MaxSeed == 2

\* int(1 / (1 / up)) for a Python int up: the true division 1 / up is a float,
\* and so is 1 / stride; int() truncates.  Tabulated once per up factor.
ResolvedStride ==
    [up \in 1..Max(MaxUp, MaxStrideUp) |->
        FloatToInt(FloatRecip(FloatRecip(IntToFloat(up))))]

(***************************************************************************)
(* Shapes and the torch calls that combine them.                           *)
(***************************************************************************)
ShapeError == <<-1>>

RECURSIVE Numel(_)
Numel(s) == IF s = <<>> THEN 1 ELSE Head(s) * Numel(Tail(s))

\* Tensor.view / Tensor.reshape on a contiguous tensor: the element counts agree.
View(s, t) ==
    IF s = ShapeError \/ t = ShapeError THEN ShapeError
    ELSE IF Numel(s) = Numel(t) THEN t ELSE ShapeError

\* s with ones added on the left up to n axes.
PadLeft(s, n) ==
    [i \in 1..n |-> IF i <= n - Len(s) THEN 1 ELSE s[i - (n - Len(s))]]

\* The shape of an elementwise operation on shapes s and t (torch broadcasting).
Broadcast(s, t) ==
    IF s = ShapeError \/ t = ShapeError THEN ShapeError
    ELSE LET n == Max(Len(s), Len(t))
             a == PadLeft(s, n)
             b == PadLeft(t, n)
         IN  IF \A i \in 1..n : a[i] = b[i] \/ a[i] = 1 \/ b[i] = 1
             THEN [i \in 1..n |-> Max(a[i], b[i])]
             ELSE ShapeError

\* Tensor.unsqueeze(d), d counted from 0.
Unsqueeze(s, d) ==
    IF s = ShapeError THEN ShapeError
    ELSE [i \in 1..(Len(s) + 1) |->
            IF i <= d THEN s[i] ELSE IF i = d + 1 THEN 1 ELSE s[i - 1]]

\* F.linear / nn.Linear with weight (out_features, in_features).
LinearShape(s, in_features, out_features) ==
    IF s = ShapeError \/ s = <<>> THEN ShapeError
    ELSE IF s[Len(s)] = in_features
         THEN [s EXCEPT ![Len(s)] = out_features]
         ELSE ShapeError

\* F.conv2d(x, w, padding, stride, groups) with dilation 1.
Conv2dShape(xs, ws, padding, stride, groups) ==
    IF xs = ShapeError \/ ws = ShapeError THEN ShapeError
    ELSE IF /\ groups >= 1
            /\ stride >= 1
            /\ padding >= 0
            /\ xs[2] = ws[2] * groups
            /\ ws[1] % groups = 0
            /\ xs[3] + 2 * padding >= ws[3]
            /\ xs[4] + 2 * padding >= ws[4]
         THEN <<xs[1], ws[1],
                ((xs[3] + 2 * padding - ws[3]) \div stride) + 1,
                ((xs[4] + 2 * padding - ws[4]) \div stride) + 1>>
         ELSE ShapeError

(***************************************************************************)
(* NoiseInjection                                                          *)
(***************************************************************************)
NoNoise == [given |-> FALSE, shape |-> <<>>]

GivenNoise(s) == [given |-> TRUE, shape |-> s]

\* NoiseInjection.__init__: the weight is (1, channels, 1, 1).
NoiseInjectionInit(channels) ==
    [class |-> "NoiseInjection", channels |-> channels,
     weight |-> <<1, channels, 1, 1>>]

\* The noise that NoiseInjection.forward adds: the one given, or randn(batch, 1, h, w).
NoiseUsed(xs, noise) ==
    IF noise.given THEN noise.shape ELSE <<xs[1], 1, xs[3], xs[4]>>

\* NoiseInjection.forward: x + self.weight * noise.
NoiseInjectionForward(weight, xs, noise) ==
    IF xs = ShapeError THEN ShapeError
    ELSE Broadcast(xs, Broadcast(weight, NoiseUsed(xs, noise)))

(***************************************************************************)
(* ModulatedConv2d                                                         *)
(***************************************************************************)
NoPadding == [given |-> FALSE, v |-> 0]

GivenPadding(p) == [given |-> TRUE, v |-> p]

\* ModulatedConv2d.__init__; padding is the caller's argument, 0 when omitted.
\* padding_given is a ghost field: the code keeps no trace of it.
ModulatedConv2dInit(in_channels, out_channels, kernel_size, style_dim, demodulate, up, down, padding) ==
    [class |-> "ModulatedConv2d",
     in_channels |-> in_channels, out_channels |-> out_channels,
     kernel_size |-> kernel_size, style_dim |-> style_dim,
     demodulate |-> demodulate, up |-> up, down |-> down,
     padding |-> padding.v, padding_given |-> padding.given,
     noise_injection |-> NoiseInjectionInit(out_channels)]

\* stride = (1 / self.up) if self.up > 1 else self.down
\* if isinstance(stride, float): stride = int(1 / stride)
Stride(up, down) ==
    IF up > 1 THEN ResolvedStride[up] ELSE down

\* padding = self.kernel_size // 2 if self.padding == 0 else self.padding
\* (Line 272 without the k // 2 default.)
PaddingNoDefault(kernel_size, padding) == padding

Padding(kernel_size, padding) ==
    IF padding = 0 THEN kernel_size \div 2 ELSE padding

\* style = self.modulation(style).view(batch, in_channels, 1, 1)
ModulationShape(self, xs, ss) ==
    View(LinearShape(ss, self.style_dim, self.in_channels), <<xs[1], xs[2], 1, 1>>)

\* weight = self.scale * self.weight.unsqueeze(0) * style.unsqueeze(1)
ModulatedWeightShape(self, style) ==
    Broadcast(Unsqueeze(<<self.out_channels, self.in_channels,
                          self.kernel_size, self.kernel_size>>, 0),
              Unsqueeze(style, 1))

\* demod = rsqrt(weight.pow(2).sum([2, 3, 4]) + 1e-8)
\* weight = weight * demod.view(batch, self.out_channels, 1, 1, 1)
DemodulatedWeightShape(self, xs, weight) ==
    IF weight = ShapeError THEN ShapeError
    ELSE IF self.demodulate
         THEN Broadcast(weight, View(<<weight[1], weight[2]>>,
                                     <<xs[1], self.out_channels, 1, 1, 1>>))
         ELSE weight

\* weight = weight.view(batch * self.out_channels, in_channels, k, k)
FoldedWeightShape(self, xs, weight) ==
    View(weight, <<xs[1] * self.out_channels, xs[2],
                   self.kernel_size, self.kernel_size>>)

\* x = x.reshape(1, batch * in_channels, height, width)
FoldedInputShape(xs) == View(xs, <<1, xs[1] * xs[2], xs[3], xs[4]>>)

\* out = out.view(batch, self.out_channels, out.size(2), out.size(3))
UnfoldedOutputShape(self, xs, out) ==
    IF out = ShapeError THEN ShapeError
    ELSE View(out, <<xs[1], self.out_channels, out[3], out[4]>>)

\* ModulatedConv2d.forward on shapes: what the call passes to F.conv2d and what
\* it returns.  raised is TRUE when any torch call on the way fails.
ModulatedConv2dForward(self, xs, ss, noise) ==
    LET style   == ModulationShape(self, xs, ss)
        weight5 == DemodulatedWeightShape(self, xs, ModulatedWeightShape(self, style))
        weight  == FoldedWeightShape(self, xs, weight5)
        stride  == Stride(self.up, self.down)
        padding == Padding(self.kernel_size, self.padding)
        conv    == Conv2dShape(FoldedInputShape(xs), weight, padding, stride, xs[1])
        out     == UnfoldedOutputShape(self, xs, conv)
        final   == NoiseInjectionForward(self.noise_injection.weight, out, noise)
    IN  [op |-> "ModulatedConv2d.forward",
         x |-> xs, style |-> ss, noise |-> noise,
         dispatched |-> weight # ShapeError,
         stride |-> IF weight # ShapeError THEN stride ELSE 0,
         padding |-> IF weight # ShapeError THEN padding ELSE 0,
         weight |-> weight5,
         conv_out |-> out,
         raised |-> final = ShapeError,
         out |-> final]

(***************************************************************************)
(* Tensors with values: [shape, data], data in row-major order.  A tensor  *)
(* whose shape is ShapeError has no data.                                  *)
(***************************************************************************)
\* (data \o << >> is data as an explicit sequence: every element is computed once.)
Tensor(shape, data) == [shape |-> shape, data |-> data \o << >>]

Failed == Tensor(ShapeError, <<>>)

\* The number of elements one step along axis d skips, and all of them.
RECURSIVE Below(_, _)
Below(s, d) == IF d >= Len(s) THEN 1 ELSE s[d + 1] * Below(s, d + 1)

Strides(s) == [d \in 1..Len(s) |-> Below(s, d)] \o << >>

\* The strides with which a tensor of shape t is read when it is broadcast to
\* n axes: an axis of size 1 is not advanced along.
BroadcastStrides(t, n) ==
    [d \in 1..n |-> IF PadLeft(t, n)[d] = 1 THEN 0 ELSE Below(PadLeft(t, n), d)] \o << >>

\* The offset, in a tensor read with strides b, of the element that stands at
\* flat offset f of a result of shape s (strides so); axes 1..d.
RECURSIVE Offset(_, _, _, _, _)
Offset(f, s, so, b, d) ==
    IF d = 0 THEN 0
    ELSE ((f \div so[d]) % s[d]) * b[d] + Offset(f, s, so, b, d - 1)

\* The operands of an elementwise binary operation, broadcast: at each element
\* of the result, the pair of values the operation is applied to.
Elementwise(a, b) ==
    LET s == Broadcast(a.shape, b.shape)
    IN  IF s = ShapeError THEN Failed
        ELSE LET n  == Len(s)
                 so == Strides(s)
                 ba == BroadcastStrides(a.shape, n)
                 bb == BroadcastStrides(b.shape, n)
             IN  Tensor(s, [j \in 1..Numel(s) |->
                              <<a.data[Offset(j - 1, s, so, ba, n) + 1],
                                b.data[Offset(j - 1, s, so, bb, n) + 1]>>])

TView(t, s) ==
    IF View(t.shape, s) = ShapeError THEN Failed ELSE Tensor(s, t.data)

TUnsqueeze(t, d) ==
    IF t.shape = ShapeError THEN Failed ELSE Tensor(Unsqueeze(t.shape, d), t.data)

\* f[0] + ... + f[n - 1]
RECURSIVE SumTo(_, _)
SumTo(f, n) == IF n = 0 THEN 0 ELSE f[n - 1] + SumTo(f, n - 1)

\* F.linear(t, w) without bias, w of shape (out_features, in_features).
TLinear(t, w) ==
    LET s  == LinearShape(t.shape, w.shape[2], w.shape[1])
        nin == w.shape[2]
        nout == w.shape[1]
    IN  IF s = ShapeError THEN Failed
        ELSE Tensor(s, [j \in 1..Numel(s) |->
                SumTo([d \in 0..(nin - 1) |->
                         t.data[((j - 1) \div nout) * nin + d + 1]
                         * w.data[((j - 1) % nout) * nin + d + 1]], nin)])

\* t.pow(2).sum([2, 3, 4]) of a five-axis tensor: the summed axes are the
\* trailing ones, so each sum runs over one contiguous block.
TSumSquares(t) ==
    IF t.shape = ShapeError THEN Failed
    ELSE LET m == t.shape[3] * t.shape[4] * t.shape[5]
             s == <<t.shape[1], t.shape[2]>>
         IN  Tensor(s, [j \in 1..Numel(s) |->
                 SumTo([r \in 0..(m - 1) |->
                          t.data[(j - 1) * m + r + 1] * t.data[(j - 1) * m + r + 1]], m)])

\* a * b of two tensors.
Times(a, b) ==
    LET p == Elementwise(a, b)
    IN  Tensor(p.shape, [j \in 1..Len(p.data) |-> p.data[j][1] * p.data[j][2]])

(***************************************************************************)
(* Kernel values.  self.scale = 1 / sqrt(in_channels * kernel_size^2) and   *)
(* the demodulation factors rsqrt(. + 1e-8) are irrational, so a kernel     *)
(* value is kept as [a, t]: the number                                      *)
(*     a * scale                               when t = NoDemod,            *)
(*     a * scale * rsqrt(t * scale^2 + 1e-8)   otherwise,                   *)
(* with a and t integers (t is the slice's sum of squares in units of       *)
(* scale^2).  A sum of products of such values with integers is a function  *)
(* from t to the integer coefficient, without the zero coefficients.        *)
(***************************************************************************)
NoDemod == 0 - 1

Scaled(a, t) == [a |-> a, t |-> t]

Plain(a) == Scaled(a, NoDemod)

\* 1 / self.scale^2
ScaleSqInv(self) == self.in_channels * self.kernel_size * self.kernel_size

\* (Line 258 without the epsilon.)
EpsZero == [num |-> 0, den |-> 10 ^ 8]

\* 1e-8, the additive epsilon of the demodulation.
Eps == [num |-> 1, den |-> 10 ^ 8]

\* F.conv2d(x, w, padding=, stride=, groups=): group g reads the input channels
\* g * C .. g * C + C - 1 (C = w.shape[1]) and writes the output channels
\* g * per .. g * per + per - 1 (per = w.shape[0] / groups).
\* GroupChannel is the input channel that kernel channel c of group g reads.
\* (Every group reading the channels of group 0.)
GroupChannelShared(g, cw, c) == c

GroupChannel(g, cw, c) == g * cw + c

TConv2d(x, w, padding, stride, groups) ==
    LET s == Conv2dShape(x.shape, w.shape, padding, stride, groups)
    IN  IF s = ShapeError THEN Failed
        ELSE
        LET cw  == w.shape[2]
            kh  == w.shape[3]
            kw  == w.shape[4]
            per == w.shape[1] \div groups
            n   == cw * kh * kw
            ih  == x.shape[3]
            iw  == x.shape[4]
            \* Output element j - 1 = (f * s[3] + y) * s[4] + xx; kernel element
            \* t = (c * kh + ky) * kw + kx of output channel f.
            Term(j, t) ==
                LET f  == (j - 1) \div (s[3] * s[4])
                    iy == (((j - 1) \div s[4]) % s[3]) * stride + ((t \div kw) % kh) - padding
                    ix == ((j - 1) % s[4]) * stride + (t % kw) - padding
                    wv == w.data[f * n + t + 1]
                IN  IF iy >= 0 /\ iy < ih /\ ix >= 0 /\ ix < iw
                    THEN [k |-> wv.t,
                          v |-> wv.a * x.data[(GroupChannel(f \div per, cw, t \div (kh * kw))
                                                 * ih + iy) * iw + ix + 1]]
                    ELSE [k |-> NoDemod, v |-> 0]
            Cell(j) ==
                LET terms == [t \in 1..n |-> Term(j, t - 1)] \o << >>
                    coef  == [k \in {terms[t].k : t \in 1..n} |->
                                SumTo([t \in 0..(n - 1) |->
                                         IF terms[t + 1].k = k THEN terms[t + 1].v ELSE 0], n)]
                IN  [k \in {q \in DOMAIN coef : coef[q] # 0} |-> coef[k]]
        IN  Tensor(s, [j \in 1..Numel(s) |-> Cell(j)])

\* x + b for a convolution output x and an integer b.
WithNoise(e, b) == [lin |-> e, add |-> b]

\* NoiseInjection.forward on values; noise is the tensor given or drawn.
NoiseInjectionForwardData(weight, x, noise) ==
    LET p == Elementwise(x, Times(weight, noise))
    IN  Tensor(p.shape, [j \in 1..Len(p.data) |-> WithNoise(p.data[j][1], p.data[j][2])])

\* (The projection with a bias of ones, as in nn.Linear(..., bias=True) with
\* the bias initialised to 1.)
ModulationBiasOnes(self, style) ==
    LET p == TLinear(style, self.params.modulation)
    IN  IF p.shape = ShapeError THEN Failed
        ELSE Tensor(p.shape, [j \in 1..Numel(p.shape) |-> p.data[j] + 1])

\* self.modulation = nn.Linear(style_dim, in_channels, bias=False)
Modulation(self, style) == TLinear(style, self.params.modulation)

\* Lines 251-253: the per-sample kernel, in units of self.scale.
ModulatedWeight(self, x, style) ==
    LET s == TView(Modulation(self, style), <<x.shape[1], x.shape[2], 1, 1>>)
    IN  Times(TUnsqueeze(self.params.weight, 0), TUnsqueeze(s, 1))

\* Lines 256-260: each kernel value with the sum of squares of its
\* (sample, output channel) slice.
DemodulatedWeight(self, x, weight) ==
    IF self.demodulate
    THEN LET p == Elementwise(weight,
                              TView(TSumSquares(weight),
                                    <<x.shape[1], self.out_channels, 1, 1, 1>>))
         IN  Tensor(p.shape, [j \in 1..Len(p.data) |-> Scaled(p.data[j][1], p.data[j][2])])
    ELSE Tensor(weight.shape, [j \in 1..Len(weight.data) |-> Plain(weight.data[j])])

\* ModulatedConv2d.forward on values.
ModulatedConv2dForwardData(self, x, style, noise) ==
    LET batch   == x.shape[1]
        weight5 == ModulatedWeight(self, x, style)
        demod   == DemodulatedWeight(self, x, weight5)
        weight  == TView(demod, FoldedWeightShape(self, x.shape, demod.shape))
        stride  == Stride(self.up, self.down)
        padding == Padding(self.kernel_size, self.padding)
        conv    == TConv2d(TView(x, FoldedInputShape(x.shape)), weight,
                           padding, stride, batch)
        out     == TView(conv, UnfoldedOutputShape(self, x.shape, conv.shape))
        final   == NoiseInjectionForwardData(self.params.noise_weight, out, noise)
    IN  [op |-> "ModulatedConv2d.forward",
         x |-> x, style |-> style, noise |-> noise,
         modulated |-> weight5,
         weight |-> demod,
         raised |-> final.shape = ShapeError,
         out |-> final]

\* weight.pow(2).sum([2, 3, 4]) + 1e-8 for a slice whose sum of squares is
\* t * scale^2, multiplied by ScaleSqInv * Eps.den: a two-limb integer.
Radicand(self, t) == Add(Mul(t, Eps.den), <<0, ScaleSqInv(self) * Eps.num>>)

\* The values of slice j (from 1) of a five-axis kernel: one (sample, output channel).
Slice(weight, j) ==
    LET m == weight.shape[3] * weight.shape[4] * weight.shape[5]
    IN  [r \in 0..(m - 1) |-> weight.data[(j - 1) * m + r + 1]]

\* The sum of squares of slice j of the demodulated kernel, as the fraction
\* num / den: (sum of a^2) * scale^2 / (t * scale^2 + 1e-8), with t the slice's.
SliceEnergy(self, weight, j) ==
    LET sl == Slice(weight, j)
        m  == weight.shape[3] * weight.shape[4] * weight.shape[5]
        t  == CHOOSE u \in {sl[r].t : r \in DOMAIN sl} :
                  \A r \in DOMAIN sl : sl[r].t = u
    IN  [num |-> Mul(SumTo([r \in 0..(m - 1) |-> sl[r].a * sl[r].a], m), Eps.den),
         den |-> Radicand(self, t)]

\* The values the model draws for a tensor: small integers of both signs that
\* differ from element to element; seed 0 is the all-zeros tensor.
Pattern(seed, i) == IF seed = 0 THEN 0 ELSE ((seed * i + (i \div 3)) % 5) - 2

Fill(shape, seed) == Tensor(shape, [i \in 1..Numel(shape) |-> Pattern(seed, i)])

(***************************************************************************)
(* FullyConnectedLayer and MappingNetwork                                  *)
(***************************************************************************)
\* FullyConnectedLayer.__init__ as MappingNetwork calls it: leaky_relu, kaiming,
\* batch_norm=True.  A fresh nn.Module is in training mode.
FullyConnectedLayerInit(in_features, out_features) ==
    [in_features |-> in_features, out_features |-> out_features,
     activation |-> "leaky_relu", weight_init |-> "kaiming",
     batch_norm |-> TRUE, layer_norm |-> FALSE, training |-> TRUE]

\* FullyConnectedLayer.forward: F.linear, then BatchNorm1d, which in training
\* mode refuses a batch of one; activation and dropout keep the shape.
FullyConnectedLayerForward(self, xs) ==
    LET y == LinearShape(xs, self.in_features, self.out_features)
    IN  IF y = ShapeError THEN ShapeError
        ELSE IF self.batch_norm /\ self.training /\ Numel(y) \div self.out_features <= 1
             THEN ShapeError
             ELSE y

\* MappingNetwork.__init__: for i in range(num_layers) is empty for num_layers <= 0.
\* num_layers is a ghost field: the code keeps only the layers.
MappingNetworkInit(z_dim, w_dim, num_layers, label_dim) ==
    [class |-> "MappingNetwork", z_dim |-> z_dim, w_dim |-> w_dim,
     label_dim |-> label_dim, num_layers |-> num_layers,
     net |-> [i \in 1..num_layers |->
                FullyConnectedLayerInit(IF i = 1 THEN z_dim ELSE w_dim, w_dim)]]

\* nn.Sequential.forward: the layers in order.
RECURSIVE Sequential(_, _)
Sequential(net, xs) ==
    IF net = <<>> THEN xs
    ELSE Sequential(Tail(net), FullyConnectedLayerForward(Head(net), xs))

\* self.label_embedding(labels): every index within the table, else IndexError.
EmbeddingShape(self, labels) ==
    IF \A i \in 1..Len(labels) : labels[i] >= 0 /\ labels[i] < self.label_dim
    THEN <<Len(labels), self.z_dim>>
    ELSE ShapeError

\* MappingNetwork.forward.  transformed counts the layers applied to
\* z_prime = z + embedded_labels: with none, the result is z_prime itself.
MappingNetworkForward(self, zs, labels) ==
    LET z_prime == Broadcast(zs, EmbeddingShape(self, labels))
        out     == Sequential(self.net, z_prime)
    IN  [op |-> "MappingNetwork.forward", z |-> zs, labels |-> labels,
         z_prime |-> z_prime,
         transformed |-> Len(self.net),
         raised |-> out = ShapeError,
         out |-> out]

(***************************************************************************)
(* State: the module that was constructed and the forward call made on it.  *)
(* forward changes no field of the module, so one call per behaviour shows *)
(* all there is to see.                                                    *)
(***************************************************************************)
VARIABLES obj, call

vars == <<obj, call>>

NoObject == [class |-> "none"]

NoCall == [op |-> "none"]

Shapes4(ns, cs, hs) == {<<n, c, h, h>> : n \in ns, c \in cs, h \in hs}

Noises(ns, hs) == {NoNoise} \cup {GivenNoise(s) : s \in Shapes4(ns, {1}, hs)}

Paddings(ps) == {NoPadding} \cup {GivenPadding(p) : p \in ps}

Init == obj = NoObject /\ call = NoCall

ConstructModulatedConv2d(chans, kernels, sdims, ups, downs, pads) ==
    \E cin \in chans, cout \in chans, k \in kernels, sd \in sdims,
       dm \in BOOLEAN, up \in ups, down \in downs, pad \in Paddings(pads) :
        /\ obj = NoObject
        /\ obj' = ModulatedConv2dInit(cin, cout, k, sd, dm, up, down, pad)
        /\ call' = NoCall

CallModulatedConv2d(batches, chans, sizes, sdims) ==
    /\ obj.class = "ModulatedConv2d"
    /\ call = NoCall
    /\ \E xs \in Shapes4(batches, chans, sizes),
          ss \in {<<n, d>> : n \in batches, d \in sdims},
          noise \in Noises(batches, sizes) :
            call' = ModulatedConv2dForward(obj, xs, ss, noise)
    /\ UNCHANGED obj

ConstructNoiseInjection(chans) ==
    \E c \in chans :
        /\ obj = NoObject
        /\ obj' = NoiseInjectionInit(c)
        /\ call' = NoCall

CallNoiseInjection(batches, chans, sizes) ==
    /\ obj.class = "NoiseInjection"
    /\ call = NoCall
    /\ \E xs \in Shapes4(batches, chans, sizes), noise \in Noises(batches, sizes) :
            call' = [op |-> "NoiseInjection.forward", x |-> xs, noise |-> noise,
                     out |-> NoiseInjectionForward(obj.weight, xs, noise),
                     raised |-> NoiseInjectionForward(obj.weight, xs, noise) = ShapeError]
    /\ UNCHANGED obj

ConstructMappingNetwork(dims, layers, labels) ==
    \E z_dim \in dims, w_dim \in dims, num_layers \in layers, label_dim \in labels :
        /\ obj = NoObject
        /\ obj' = MappingNetworkInit(z_dim, w_dim, num_layers, label_dim)
        /\ call' = NoCall

CallMappingNetwork(batches, dims, labels) ==
    /\ obj.class = "MappingNetwork"
    /\ call = NoCall
    /\ \E n \in batches, d \in dims :
          \E ls \in [1..n -> labels] :
            call' = MappingNetworkForward(obj, <<n, d>>, ls)
    /\ UNCHANGED obj

Next ==
    \/ ConstructModulatedConv2d(1..MaxChannels, 1..MaxKernel, 1..MaxStyleDim,
                                1..MaxUp, 1..MaxDown, 0..MaxPad)
    \/ CallModulatedConv2d(1..MaxBatch, 1..MaxChannels, 1..MaxSize, 1..MaxStyleDim)
    \/ ConstructNoiseInjection(1..MaxChannels)
    \/ CallNoiseInjection(1..MaxBatch, 1..MaxChannels, 1..MaxSize)
    \/ ConstructMappingNetwork(1..MaxStyleDim, (0 - 1)..MaxLayers, 1..MaxLabels)
    \/ CallMappingNetwork(1..MaxBatch, 1..MaxStyleDim, 0..MaxLabels)

Spec == Init /\ [][Next]_vars

\* The same operations with up = 1, down = 1 and no padding argument.
NextSameSize ==
    \/ ConstructModulatedConv2d(1..MaxChannels, 1..MaxKernel, {1}, {1}, {1}, {})
    \/ CallModulatedConv2d(1..MaxBatch, 1..MaxChannels, 1..MaxSize, {1})

SpecSameSize == Init /\ [][NextSameSize]_vars

\* The same operations over every up factor to MaxStrideUp, on one-channel maps.
NextStride ==
    \/ ConstructModulatedConv2d({1}, {1}, {1}, 1..MaxStrideUp, 1..MaxDown, {})
    \/ CallModulatedConv2d({1}, {1}, 1..MaxSize, {1})

SpecStride == Init /\ [][NextStride]_vars

\* ModulatedConv2d.__init__ with the values of its parameters: weight is
\* torch.randn, modulation.weight is nn.Linear's random initialisation, the
\* noise weight is zeros.
ConstructModulatedConv2dData(chans, kernels, sdims, seeds) ==
    \E cin \in chans, cout \in chans, k \in kernels, sd \in sdims,
       dm \in BOOLEAN, s \in seeds :
        /\ obj = NoObject
        /\ obj' = ModulatedConv2dInit(cin, cout, k, sd, dm, 1, 1, NoPadding) @@
                  [params |-> [weight |-> Fill(<<cout, cin, k, k>>, s),
                               modulation |-> Fill(<<cin, sd>>, s),
                               noise_weight |-> Fill(<<1, cout, 1, 1>>, 0)]]
        /\ call' = NoCall

\* The noise weight is an nn.Parameter: training moves it away from zero.
UpdateNoiseWeight(seeds) ==
    /\ obj.class = "ModulatedConv2d"
    /\ call = NoCall
    /\ obj.params.noise_weight = Fill(obj.params.noise_weight.shape, 0)
    /\ \E s \in seeds :
         obj' = [obj EXCEPT !.params.noise_weight = Fill(@.shape, s)]
    /\ UNCHANGED call

\* forward with matching shapes: a feature map with the layer's channels, a
\* style of the layer's style_dim (all zeros for seed 0) and noise of the
\* output's size, the tensor given or the one torch.randn draws (its values
\* follow the feature map's seed).
CallModulatedConv2dData(batches, sizes, seeds) ==
    /\ obj.class = "ModulatedConv2d"
    /\ call = NoCall
    /\ \E n \in batches, h \in sizes, sx \in seeds, ss \in {0} \cup seeds :
         LET xs == <<n, obj.in_channels, h, h>>
             ss2 == <<n, obj.style_dim>>
             os == ModulatedConv2dForward(obj, xs, ss2, NoNoise).conv_out
         IN  call' = ModulatedConv2dForwardData(obj, Fill(xs, sx), Fill(ss2, ss),
                         Fill(<<n, 1, os[3], os[4]>>, sx))
    /\ UNCHANGED obj

NextData ==
    \/ ConstructModulatedConv2dData(1..MaxChannels, 1..MaxKernel, {MaxStyleDim},
                                    1..MaxSeed)
    \/ UpdateNoiseWeight({MaxSeed})
    \/ CallModulatedConv2dData(1..MaxBatch, 1..MaxSize, 1..MaxSeed)

SpecData == Init /\ [][NextData]_vars

(***************************************************************************)
(* Properties                                                              *)
(***************************************************************************)
ConvCalled == call.op = "ModulatedConv2d.forward"

ConvReturned == ConvCalled /\ ~call.raised

\* C1: a forward call whose style batch size differs from the batch size of x
\* fails: it never returns an output.
C1_StyleBatchMismatchRaises ==
    (ConvCalled /\ call.style[1] # call.x[1]) => call.raised

\* The feature map and the noise that reach NoiseInjection.forward.
InjectorCalled ==
    \/ call.op = "NoiseInjection.forward"
    \/ ConvCalled /\ call.conv_out # ShapeError

InjectorInput ==
    IF call.op = "NoiseInjection.forward" THEN call.x ELSE call.conv_out

\* C2: supplied noise whose batch size differs from the feature map's makes the
\* call fail, and every call that returns gives the shape of the feature map.
C2_NoiseBatchMismatchRaises ==
    InjectorCalled =>
        /\ (call.noise.given /\ call.noise.shape[1] # InjectorInput[1]) => call.raised
        /\ ~call.raised => call.out = InjectorInput

\* C3: a layer with up > 1 and down > 1 never gets as far as the convolution,
\* and its forward returns nothing.
C3_UpAndDownRejected ==
    (obj.class = "ModulatedConv2d" /\ obj.up > 1 /\ obj.down > 1 /\ ConvCalled)
        => (~call.dispatched /\ call.raised)

\* C4: no MappingNetwork exists with num_layers < 1, and no forward returns
\* z + embedding(labels) untransformed.
C4_NoLayersRejected ==
    /\ obj.class = "MappingNetwork" => obj.num_layers >= 1
    /\ (call.op = "MappingNetwork.forward" /\ ~call.raised) => call.transformed >= 1

\* The calls C5 is about: up = 1, down = 1, padding left at its default, x with
\* the layer's in_channels, noise omitted or of the shape (N, 1, H', W') of the
\* convolution's output.
SameSizeCall ==
    /\ ConvReturned
    /\ obj.up = 1 /\ obj.down = 1 /\ ~obj.padding_given
    /\ call.x[2] = obj.in_channels
    /\ call.noise.given =>
          call.noise.shape = <<call.x[1], 1, call.conv_out[3], call.conv_out[4]>>

\* C5 as stated: such a call returns (N, C_out, H, W) for every kernel_size.
C5_SameSizeEveryKernel ==
    SameSizeCall => call.out = <<call.x[1], obj.out_channels, call.x[3], call.x[4]>>

\* C5 amended: such a call returns (N, C_out, H, W) for every odd kernel_size and
\* (N, C_out, H + 1, W + 1) for every even one.
C5_SameSizeOddKernel ==
    SameSizeCall =>
        call.out = <<call.x[1], obj.out_channels,
                     call.x[3] + (1 - (obj.kernel_size % 2)),
                     call.x[4] + (1 - (obj.kernel_size % 2))>>

C5_Witness ==
    /\ SameSizeCall
    /\ obj.kernel_size = 3 /\ obj.out_channels = 2 /\ obj.demodulate
    /\ call.x = <<2, 2, 2, 2>>
    /\ call.out = <<2, 2, 2, 2>>

\* C6: the convolution gets kernel_size // 2 only when the caller gave no
\* padding; a padding the caller gave, 0 included, is passed unchanged.
C6_ExplicitPaddingKept ==
    (ConvCalled /\ call.dispatched) =>
        call.padding = IF obj.padding_given THEN obj.padding
                       ELSE obj.kernel_size \div 2

\* C10: the stride passed to the convolution is an integer >= 1: down when
\* up = 1, and up when up > 1.
C10_StrideResolved ==
    (ConvCalled /\ call.dispatched) =>
        /\ call.stride >= 1
        /\ obj.up = 1 => call.stride = obj.down
        /\ obj.up > 1 => call.stride = obj.up

\* The number of (sample, output channel) slices of the call's kernel.
Slices == call.x.shape[1] * obj.out_channels

AllZero(f) == \A r \in DOMAIN f : f[r] = 0

\* A call with an all-zeros style on a layer without demodulation.
ZeroStyleCall ==
    /\ ConvReturned
    /\ ~obj.demodulate
    /\ AllZero(call.style.data)

\* C7 as stated: with an all-zeros style and no demodulation the per-sample
\* kernel is the base kernel times the scale constant, at every sample, output
\* channel, input channel and kernel position (kernel values are in units of
\* the scale constant).
C7_ZeroStyleKeepsBaseKernel ==
    ZeroStyleCall =>
        \A n \in 1..call.x.shape[1], e \in 1..Numel(obj.params.weight.shape) :
            LET v == call.weight.data[(n - 1) * Numel(obj.params.weight.shape) + e]
            IN  v.a = obj.params.weight.data[e] /\ v.t = NoDemod

\* C7 amended: with an all-zeros style and no demodulation the per-sample
\* kernel is zero at every sample, output channel, input channel and kernel
\* position: the projection has no bias, so the style factor is 0.
C7_ZeroStyleZeroKernel ==
    ZeroStyleCall =>
        /\ call.modulated.shape = <<call.x.shape[1]>> \o obj.params.weight.shape
        /\ call.weight.shape = call.modulated.shape
        /\ \A i \in 1..Numel(call.modulated.shape) :
              /\ call.modulated.data[i] = 0
              /\ call.weight.data[i].a = 0 /\ call.weight.data[i].t = NoDemod

C7_Witness ==
    /\ ZeroStyleCall
    /\ call.x.shape = <<2, 2, 2, 2>>
    /\ obj.kernel_size = 3 /\ obj.out_channels = 2
    /\ ~AllZero(obj.params.weight.data)
    /\ AllZero(call.modulated.data)

\* The tolerance within which C8 takes an energy to equal 1 is
\* 1 / EnergyToleranceInv.
EnergyToleranceInv == 10 ^ 6

DemodulatedCall == ConvReturned /\ obj.demodulate

Positive(p) == Geq(p, <<0, 0>>) /\ p # <<0, 0>>

\* C8 as stated: every (sample, output channel) slice of the demodulated kernel
\* has energy 1 to within the tolerance, and every denominator is positive.
C8_UnitEnergy ==
    DemodulatedCall =>
        \A j \in 1..Slices :
            LET e == SliceEnergy(obj, call.weight, j)
            IN  /\ Positive(e.den)
                /\ Geq(e.den, e.num)
                /\ Sub(e.den, e.num)[1] = 0
                /\ Geq(e.den, Mul(Sub(e.den, e.num)[2], EnergyToleranceInv))

\* C8 amended: the energy of every slice of the demodulated kernel is
\* S / (S + 1e-8), S being the sum of squares of that slice of the modulated
\* kernel: below 1 for every slice, 0 for an all-zeros slice; and every
\* denominator S + 1e-8 is positive.
C8_EnergyBelowOne ==
    DemodulatedCall =>
        \A j \in 1..Slices :
            LET e  == SliceEnergy(obj, call.weight, j)
                sl == Slice(call.modulated, j)
                S  == SumTo([r \in DOMAIN sl |-> sl[r] * sl[r]], Cardinality(DOMAIN sl))
            IN  /\ Positive(e.den)
                /\ e.num = Mul(S, Eps.den)
                /\ e.den = Add(e.num, <<0, ScaleSqInv(obj) * Eps.num>>)
                /\ Geq(e.den, e.num) /\ e.den # e.num
                /\ AllZero(sl) <=> e.num = <<0, 0>>

\* A call whose kernel has an all-zeros slice and slices of different energies.
C8_Witness ==
    /\ DemodulatedCall
    /\ call.x.shape[1] = 2 /\ obj.out_channels = 2 /\ obj.kernel_size = 3
    /\ \E j \in 1..Slices : SliceEnergy(obj, call.weight, j).num = <<0, 0>>
    /\ \E j \in 1..Slices, k \in 1..Slices :
          /\ SliceEnergy(obj, call.weight, j).num # <<0, 0>>
          /\ SliceEnergy(obj, call.weight, k).num # <<0, 0>>
          /\ SliceEnergy(obj, call.weight, j).num # SliceEnergy(obj, call.weight, k).num

\* Sample i (from 1) of a tensor whose first axis is the batch.
Sample(t, i) ==
    LET m == Numel(t.shape) \div t.shape[1]
    IN  [r \in 1..m |-> t.data[(i - 1) * m + r]] \o << >>

\* The batch of one that holds sample i of t.
Only(t, i) == Tensor(<<1>> \o Tail(t.shape), Sample(t, i))

\* t with sample j replaced by the values drawn for seed s.
WithSample(t, j, s) ==
    LET m == Numel(t.shape) \div t.shape[1]
    IN  Tensor(t.shape, [r \in 1..Numel(t.shape) |->
                           IF (r - 1) \div m = j - 1 THEN Pattern(s, r) ELSE t.data[r]])

\* Sample i of the output of the call's layer on x, style and noise.
OutputSample(x, style, noise, i) ==
    Sample(ModulatedConv2dForwardData(obj, x, style, noise).out, i)

\* C9: output[i] depends only on x[i], style[i] and noise[i]: replacing x[j],
\* style[j] or noise[j] of another sample j leaves output[i] as it is, and
\* output[i] is what the layer returns for sample i alone.
C9_SamplesIndependent ==
    ConvReturned =>
        \A i \in 1..call.x.shape[1] :
            /\ Sample(call.out, i) =
                   OutputSample(Only(call.x, i), Only(call.style, i), Only(call.noise, i), 1)
            /\ \A j \in 1..call.x.shape[1] \ {i}, s \in 0..MaxSeed :
                  /\ Sample(call.out, i) =
                         OutputSample(WithSample(call.x, j, s), call.style, call.noise, i)
                  /\ Sample(call.out, i) =
                         OutputSample(call.x, WithSample(call.style, j, s), call.noise, i)
                  /\ Sample(call.out, i) =
                         OutputSample(call.x, call.style, WithSample(call.noise, j, s), i)

\* A call on two samples in which replacing sample 2's x, style or noise does
\* change output[2], on a layer whose noise weight is not zero.
C9_Witness ==
    /\ ConvReturned
    /\ call.x.shape[1] = 2 /\ obj.out_channels = 2 /\ obj.in_channels = 2
    /\ obj.kernel_size = 3
    /\ ~AllZero(obj.params.noise_weight.data)
    /\ Sample(call.out, 1) # Sample(call.out, 2)
    /\ \E s \in 0..MaxSeed :
          Sample(call.out, 2) #
              OutputSample(WithSample(call.x, 2, s), call.style, call.noise, 2)
    /\ \E s \in 0..MaxSeed :
          Sample(call.out, 2) #
              OutputSample(call.x, WithSample(call.style, 2, s), call.noise, 2)
    /\ \E s \in 0..MaxSeed :
          Sample(call.out, 2) #
              OutputSample(call.x, call.style, WithSample(call.noise, 2, s), 2)
====
